---- MODULE Spec2Model ----
(***************************************************************************)
(* Model of ivalice/impl/tree.py: the CART builder (_build_tree,           *)
(* _best_split and the three impurity functions), the flat node store      *)
(* (_Tree), the work stack (_Stack) and the router (_apply).               *)
(*                                                                         *)
(* Arithmetic.  Feature values, targets and weights are integers; every    *)
(* float64 the code derives from them (means, thresholds, impurities) is   *)
(* kept as an exact fraction <<num, den>> with den > 0.  np.log2 is a      *)
(* fixed-point table.  Arrays are functions over 0..len-1, as in the code. *)
(***************************************************************************)
EXTENDS Integers, Sequences, FiniteSets, TLC

\* ------------------------------------------------------------ constants
TREE_LEAF == -1
UNDEFINED == -2
MSE_CRITERION == 0
GINI_CRITERION == 1
ENTROPY_CRITERION == 2

\* _Tree(capacity=2 ** 10) and _Stack(capacity=2 ** 10), both scaled down by
\* the same factor so that a build over a handful of rows meets the end of
\* the node arrays the way a build over a few hundred rows does in the code.
TreeCapacity == 8
StackCapacity == 8

\* max_depth=None: no depth limit (depth_t == None is never true).
NoLimit == -1

\* ------------------------------------------------------------ bounds
NRows == 3       \* rows of a generated data set
NFeatures == 2   \* columns of a generated data set
MaxX == 1        \* generated feature values are 0..MaxX
MaxY == 1        \* generated targets / class labels are 0..MaxY
MaxW == 2        \* generated sample weights are 0..MaxW

\* ------------------------------------------------------------ fractions
Frac(n, d) == <<n, d>>
FracLess(a, b) == a[1] * b[2] < b[1] * a[2]
FracEq(a, b) == a[1] * b[2] = b[1] * a[2]
FracZero == Frac(0, 1)

\* DOUBLE_MAX, the "no impurity yet" value.  Every impurity of a slice with
\* positive weights is finite, so only the comparison with it is needed.
DOUBLE_MAX == <<1, 0>>
ImpLess(a, b) ==
    IF a = DOUBLE_MAX THEN FALSE
    ELSE IF b = DOUBLE_MAX THEN TRUE
    ELSE FracLess(a, b)

\* ------------------------------------------------------------ helpers
Range0(n) == 0 .. (n - 1)

RECURSIVE SumOver(_, _, _)
\* sum of f[ii] for ii in lo..hi-1 (the accumulation loops of the code)
SumOver(f, lo, hi) == IF lo >= hi THEN 0 ELSE f[lo] + SumOver(f, lo + 1, hi)

\* np.log2 on the integers the model meets, in units of 1/10000.
Log2Table ==
    <<0, 10000, 15850, 20000, 23219, 25850, 28074, 30000, 31699, 33219,
      34594, 35850, 37004, 38074, 39069, 40000, 40875, 41699, 42479, 43219,
      43923, 44594, 45236, 45850, 46439, 47004, 47549, 48074, 48580, 49069,
      49542, 50000>>
Log2(n) == Log2Table[n]

\* ------------------------------------------------------------ state
VARIABLES
    X, y, sample_weight,      \* the training set handed to _build_tree
    criterion, max_features, max_depth, min_samples_split, min_samples_leaf,
    samples,                  \* the sample permutation (positive-weight rows)
    features,                 \* the candidate feature order
    tree,                     \* _Tree: the five arrays and ptr
    stack,                    \* _Stack: the entry array and ptr
    node_t,                   \* id of the next node
    hist,                     \* history: per node, what was popped for it
    pc,                       \* "build" | "done" | "IndexError" | "ValueError";
                              \* "stack" while a _Stack is driven on its own
    query,                    \* predict: the row last routed through the tree
    route                     \* predict: the node ids its walk visited

vars == <<X, y, sample_weight, criterion, max_features, max_depth,
          min_samples_split, min_samples_leaf, samples, features, tree,
          stack, node_t, hist, pc, query, route>>

inputs == <<X, y, sample_weight, criterion, max_features, max_depth,
            min_samples_split, min_samples_leaf>>

n_samples == Len(X)
n_features == Len(X[1])

\* ------------------------------------------------------------ label encoding
\* LabelEncoder: classes_ are the sorted distinct labels, a label's code is
\* its rank among them.
Labels == {y[i] : i \in 1..Len(y)}
n_classes == Cardinality(Labels)
LabelCode(l) == Cardinality({m \in Labels : m < l})
LabelOf(c) == CHOOSE l \in Labels : LabelCode(l) = c

\* y as the split search sees it, by 0-based row index: raw targets for
\* regression, class codes for classification.
Target(i) == IF criterion >= GINI_CRITERION THEN LabelCode(y[i + 1]) ELSE y[i + 1]
Weight(i) == sample_weight[i + 1]
Feat(i, j) == X[i + 1][j + 1]

\* ------------------------------------------------------------ impurity
\* Each evaluator returns the impurity and the five numbers it leaves in
\* out[0..4]: N_L, N_R, N_t, value_L, value_R.

_impurity_mse(smp, start_t, pos_t, end_t) ==
    LET wL == [ii \in start_t..(pos_t - 1) |-> Weight(smp[ii])]
        wR == [ii \in pos_t..(end_t - 1) |-> Weight(smp[ii])]
        N_L == SumOver(wL, start_t, pos_t)
        N_R == SumOver(wR, pos_t, end_t)
        sqL == SumOver([ii \in DOMAIN wL |-> wL[ii] * Target(smp[ii]) * Target(smp[ii])], start_t, pos_t)
        smL == SumOver([ii \in DOMAIN wL |-> wL[ii] * Target(smp[ii])], start_t, pos_t)
        sqR == SumOver([ii \in DOMAIN wR |-> wR[ii] * Target(smp[ii]) * Target(smp[ii])], pos_t, end_t)
        smR == SumOver([ii \in DOMAIN wR |-> wR[ii] * Target(smp[ii])], pos_t, end_t)
        N_t == N_L + N_R
    IN  IF N_L = 0 \/ N_R = 0
        THEN [imp |-> DOUBLE_MAX, out |-> <<>>]
        ELSE [imp |-> \* (imp_L + imp_R) / N_t, imp_S = y_sq - y_sum^2 / N_S
                      Frac((sqL * N_L - smL * smL) * N_R + (sqR * N_R - smR * smR) * N_L,
                           N_L * N_R * N_t),
              out |-> <<N_L, N_R, N_t, Frac(smL, N_L), Frac(smR, N_R)>>]

\* weighted count of class k over positions lo..hi-1
ClassCount(smp, lo, hi, k) ==
    SumOver([ii \in lo..(hi - 1) |->
                IF Target(smp[ii]) = k THEN Weight(smp[ii]) ELSE 0], lo, hi)

\* the class the "count[k] > best" sweep over k = 0..n_classes-1 ends on
ArgMaxFirst(count) ==
    CHOOSE k \in DOMAIN count :
        /\ \A m \in DOMAIN count : count[m] <= count[k]
        /\ \A m \in DOMAIN count : m < k => count[m] < count[k]

_compute_counts(smp, start_t, pos_t, end_t) ==
    LET count_L == [k \in Range0(n_classes) |-> ClassCount(smp, start_t, pos_t, k)]
        count_R == [k \in Range0(n_classes) |-> ClassCount(smp, pos_t, end_t, k)]
        N_L == SumOver([ii \in start_t..(pos_t - 1) |-> Weight(smp[ii])], start_t, pos_t)
        N_R == SumOver([ii \in pos_t..(end_t - 1) |-> Weight(smp[ii])], pos_t, end_t)
    IN  [count_L |-> count_L, count_R |-> count_R,
         out |-> <<N_L, N_R, N_L + N_R,
                   Frac(ArgMaxFirst(count_L), 1), Frac(ArgMaxFirst(count_R), 1)>>]

_impurity_gini(smp, start_t, pos_t, end_t) ==
    LET c == _compute_counts(smp, start_t, pos_t, end_t)
        N_L == c.out[1]
        N_R == c.out[2]
        N_t == c.out[3]
        \* sum over k of proba * (1 - proba), proba = count[k] / N_t, times N_t^2
        g(count) == SumOver([k \in Range0(n_classes) |-> count[k] * (N_t - count[k])],
                            0, n_classes)
    IN  IF N_L = 0 /\ N_R = 0
        THEN [imp |-> DOUBLE_MAX, out |-> c.out]
        ELSE [imp |-> Frac(N_L * g(c.count_L) + N_R * g(c.count_R), N_t * N_t),
              out |-> c.out]

_impurity_entropy(smp, start_t, pos_t, end_t) ==
    LET c == _compute_counts(smp, start_t, pos_t, end_t)
        N_L == c.out[1]
        N_R == c.out[2]
        N_t == c.out[3]
        \* minus the sum over k of proba * log2(proba), times N_t
        e(count) == SumOver([k \in Range0(n_classes) |->
                                IF count[k] > 0
                                THEN count[k] * (Log2(N_t) - Log2(count[k]))
                                ELSE 0], 0, n_classes)
    IN  IF N_L = 0 \/ N_R = 0
        THEN [imp |-> DOUBLE_MAX, out |-> c.out]
        ELSE [imp |-> Frac(N_L * e(c.count_L) + N_R * e(c.count_R), N_t),
              out |-> c.out]

Impurity(smp, start_t, pos_t, end_t) ==
    IF criterion = MSE_CRITERION THEN _impurity_mse(smp, start_t, pos_t, end_t)
    ELSE IF criterion = GINI_CRITERION THEN _impurity_gini(smp, start_t, pos_t, end_t)
    ELSE _impurity_entropy(smp, start_t, pos_t, end_t)

\* ------------------------------------------------------------ sorting
\* heapsort(Xj[start_t:end_t], samples[start_t:end_t], size_t): the slice of
\* the permutation comes back ordered by feature j; heapsort is not stable,
\* so rows with equal values may come back in any order.
heapsort(smp, start_t, end_t, j) ==
    {s \in [DOMAIN smp -> {smp[p] : p \in DOMAIN smp}] :
        /\ \A p \in DOMAIN smp : (p < start_t \/ p >= end_t) => s[p] = smp[p]
        /\ {s[p] : p \in start_t..(end_t - 1)} = {smp[p] : p \in start_t..(end_t - 1)}
        /\ \A p \in start_t..(end_t - 2) : Feat(s[p], j) <= Feat(s[p + 1], j)}

\* (mutant) the slice sorted starts at position 0
SortSlice_FromZero(smp, start_t, end_t, j) == heapsort(smp, 0, end_t, j)

\* Xj[p] = X[samples[p], j] for p in start_t..end_t-1, then the sort of
\* Xj[start_t:end_t] and samples[start_t:end_t]
SortSlice(smp, start_t, end_t, j) == heapsort(smp, start_t, end_t, j)

\* ------------------------------------------------------------ _best_split
\* The locals of _best_split before the loop over the features.
BestInit ==
    [best_imp |-> DOUBLE_MAX, best_thresh |-> Frac(0, 1), best_j |-> -1,
     best_pos_t |-> -1, N_L |-> 0, N_R |-> 0, N_t |-> 0,
     value_L |-> FracZero, value_R |-> FracZero]

\* (mutant) the left-side half of the min_samples_leaf test is lost
TooSmall_RightOnly(N_L, N_R) == N_R < min_samples_leaf

\* Is position pos_t = k + 1 skipped by the min_samples_leaf test?
TooSmall(N_L, N_R) == N_R < min_samples_leaf \/ N_L < min_samples_leaf

\* (mutant) an equal impurity replaces the best so far
Improves_OrEqual(imp, best_imp) == ~ImpLess(best_imp, imp)

\* Is an impurity an improvement on the best so far?
Improves(imp, best_imp) == ImpLess(imp, best_imp)

\* (mutant) the threshold is the lower of the two values
Threshold_Low(lo, hi) == Frac(lo, 1)

\* thresh = Xj_diff / 2.0 + Xj[k], for Xj[k] = lo and Xj[k + 1] = hi
Threshold(lo, hi) == Frac((hi - lo) + 2 * lo, 2)

\* (mutant) a position between two equal values is scanned like any other
NoThreshold_Never(lo, hi) == FALSE

\* Xj_diff == 0, for Xj[k] = lo and Xj[k + 1] = hi: no threshold between them
NoThreshold(lo, hi) == hi - lo = 0

\* One iteration of the loop over k, on the slice sorted by feature j.
ScanStep(b, smp, start_t, end_t, j, k) ==
    LET pos_t == k + 1
        N_L == pos_t - start_t
        N_R == (end_t - start_t) - N_L
        b1 == [b EXCEPT !.N_L = N_L, !.N_R = N_R]
        thresh == Threshold(Feat(smp[k], j), Feat(smp[k + 1], j))
        r == Impurity(smp, start_t, pos_t, end_t)
    IN  IF TooSmall(N_L, N_R) THEN b1
        ELSE IF NoThreshold(Feat(smp[k], j), Feat(smp[k + 1], j)) THEN b1
        ELSE IF Improves(r.imp, b.best_imp)
             THEN [best_imp |-> r.imp, best_thresh |-> thresh, best_j |-> j,
                   best_pos_t |-> pos_t, N_L |-> r.out[1], N_R |-> r.out[2],
                   N_t |-> r.out[3], value_L |-> r.out[4], value_R |-> r.out[5]]
             ELSE b1

RECURSIVE ScanFrom(_, _, _, _, _, _)
\* for k in xrange(k, end_t - 1): iteration k leaves the locals b1, and the
\* loop goes on from them
ScanFrom(b, smp, start_t, end_t, j, k) ==
    IF k >= end_t - 1 THEN b
    ELSE CHOOSE last \in {ScanFrom(b1, smp, start_t, end_t, j, k + 1) :
                              b1 \in {ScanStep(b, smp, start_t, end_t, j, k)}} : TRUE

RECURSIVE ScanFeatures(_, _, _, _)
\* for j in features: sort the slice by j, scan it.  `sts` is the set of
\* (permutation, locals) pairs the loop can be in before feature fs[1].
ScanFeatures(sts, fs, start_t, end_t) ==
    IF fs = <<>> THEN sts
    ELSE ScanFeatures(
            UNION {{[smp |-> s, b |-> ScanFrom(st.b, s, start_t, end_t, fs[1], start_t)] :
                        s \in SortSlice(st.smp, start_t, end_t, fs[1])} : st \in sts},
            Tail(fs), start_t, end_t)

\* (mutant) the slice is left in the order of the last feature scanned
Reorder_Skipped(st, start_t, end_t) == {st}

\* The final re-sort by the winning feature (only when one was found).
Reorder(st, start_t, end_t) ==
    IF st.b.best_j # -1
    THEN {[smp |-> s, b |-> st.b] : s \in SortSlice(st.smp, start_t, end_t, st.b.best_j)}
    ELSE {st}

\* _best_split: every (permutation, out) pair the call can end with.
_best_split(smp, fs, start_t, end_t) ==
    UNION {Reorder(st, start_t, end_t) :
              st \in ScanFeatures({[smp |-> smp, b |-> BestInit]}, fs, start_t, end_t)}

\* ------------------------------------------------------------ _Tree
\* _Tree.__init__
NewTree ==
    [threshold |-> [i \in Range0(TreeCapacity) |-> Frac(UNDEFINED, 1)],
     feature |-> [i \in Range0(TreeCapacity) |-> UNDEFINED],
     children_left |-> [i \in Range0(TreeCapacity) |-> TREE_LEAF],
     children_right |-> [i \in Range0(TreeCapacity) |-> TREE_LEAF],
     value |-> [i \in Range0(TreeCapacity) |-> FracZero],
     ptr |-> 0]

\* A write at index ptr of an array of TreeCapacity cells raises IndexError
\* when ptr is past the last cell; the arrays are never enlarged.
HasRoom(t) == t.ptr < TreeCapacity

add_node(t, threshold, feature, value) ==
    [t EXCEPT !.threshold[t.ptr] = threshold, !.feature[t.ptr] = feature,
              !.value[t.ptr] = value, !.ptr = @ + 1]

add_terminal_node(t, value) ==
    [t EXCEPT !.value[t.ptr] = value, !.ptr = @ + 1]

\* the slice arr[:n] of an array
Slice(arr, n) == [i \in {d \in DOMAIN arr : d < n} |-> arr[i]]

\* number of cells finalize keeps: getattr(self, attr)[:self.ptr + 1]
KeptCells(t) == t.ptr + 1

finalize(t) ==
    [t EXCEPT !.threshold = Slice(@, KeptCells(t)), !.feature = Slice(@, KeptCells(t)),
              !.value = Slice(@, KeptCells(t)),
              !.children_left = Slice(@, KeptCells(t)),
              !.children_right = Slice(@, KeptCells(t))]

\* ------------------------------------------------------------ _Stack
NoEntry ==
    [start |-> 0, end |-> 0, left |-> FALSE, depth |-> 0, n_samples |-> 0,
     parent |-> 0, value |-> FracZero]

\* _Stack.__init__
NewStack == [e |-> [i \in Range0(StackCapacity) |-> NoEntry], ptr |-> -1]

\* _Stack.push: the outcome is the stack and the exception raised, if any.
push(st, entry) ==
    IF st.ptr >= StackCapacity
    THEN [stack |-> st, raised |-> "ValueError"]
    ELSE IF st.ptr + 1 \in DOMAIN st.e
         THEN [stack |-> [st EXCEPT !.ptr = @ + 1, !.e[st.ptr + 1] = entry],
               raised |-> "none"]
         ELSE [stack |-> [st EXCEPT !.ptr = @ + 1], raised |-> "IndexError"]

\* (mutant) the entry is read and left on the stack
pop_Peek(st) == [entry |-> st.e[st.ptr], stack |-> st]

\* _Stack.pop: the entry returned and the stack left.
pop(st) == [entry |-> st.e[st.ptr], stack |-> [st EXCEPT !.ptr = @ - 1]]

\* _Stack.__len__
StackLen(st) == st.ptr + 1

\* ------------------------------------------------------------ inputs
\* Generated data sets: NRows rows of NFeatures columns.  Two reductions
\* keep one representative per class of data sets a build cannot tell apart:
\*  - the order of the rows is immaterial (row ids only pass through the
\*    sort, whose order among equal values is left open), so rows come in
\*    non-decreasing key order;
\*  - the features of a zero-weight row are never read (only its label is,
\*    by the label encoder), so they are generated as 0.
RECURSIVE RowKeyFrom(_, _)
RowKeyFrom(row, j) ==
    IF j > Len(row) THEN 0 ELSE row[j] + (MaxX + 1) * RowKeyFrom(row, j + 1)
RowKey(row, t, w) == (RowKeyFrom(row, 1) * (MaxY + 1) + t) * (MaxW + 1) + w

GeneratedData ==
    {d \in [X : [1..NRows -> [1..NFeatures -> 0..MaxX]],
            y : [1..NRows -> 0..MaxY],
            w : [1..NRows -> 0..MaxW]] :
        /\ \A i \in 1..(NRows - 1) :
              RowKey(d.X[i], d.y[i], d.w[i]) <= RowKey(d.X[i + 1], d.y[i + 1], d.w[i + 1])
        /\ \A i \in 1..NRows : d.w[i] = 0 => \A j \in 1..NFeatures : d.X[i][j] = 0}

\* Rows on one feature with unit weights: the values 0,1,2,3 with every
\* two-valued target over {0, 10} (among them y = 0,0,10,10), the values
\* 0,0,5,5 with y = 0,0,1,1, and five distinct values, whose tree has more
\* nodes than the node store has cells.
LineData ==
    {[X |-> <<<<0>>, <<1>>, <<2>>, <<3>>>>, y |-> t, w |-> <<1, 1, 1, 1>>] :
        t \in [1..4 -> {0, 10}]}
    \cup {[X |-> <<<<0>>, <<0>>, <<5>>, <<5>>>>, y |-> <<0, 0, 1, 1>>, w |-> <<1, 1, 1, 1>>]}
    \cup {[X |-> <<<<0>>, <<1>>, <<2>>, <<3>>, <<4>>>>, y |-> <<0, 1, 0, 1, 0>>,
           w |-> <<1, 1, 1, 1, 1>>]}

Criteria == {MSE_CRITERION, GINI_CRITERION, ENTROPY_CRITERION}

\* The limits of a build.  The defaults of _build_tree are max_depth=None,
\* min_samples_split=2, min_samples_leaf=1, and the estimators resolve
\* max_features=None to n_features; a configuration departs from the
\* defaults in at most one parameter.
DefaultMinSplit == 2
DefaultMinLeaf == 1
Configs(nf) ==
    {c \in [max_depth : {NoLimit, 0, 1},
            min_samples_split : {DefaultMinSplit, DefaultMinSplit + 1},
            min_samples_leaf : {DefaultMinLeaf, DefaultMinLeaf + 1},
            max_features : 1..nf] :
        Cardinality({f \in {"d", "s", "l", "m"} :
                        \/ f = "d" /\ c.max_depth # NoLimit
                        \/ f = "s" /\ c.min_samples_split # DefaultMinSplit
                        \/ f = "l" /\ c.min_samples_leaf # DefaultMinLeaf
                        \/ f = "m" /\ c.max_features # nf}) <= 1}

\* The builds explored: the generated data under the default limits with
\* every feature-subsample count, the four-row data under every
\* configuration.
Builds ==
    {[d |-> d, c |-> c] :
        d \in GeneratedData,
        c \in {c \in Configs(NFeatures) :
                  /\ c.max_depth = NoLimit
                  /\ c.min_samples_split = DefaultMinSplit
                  /\ c.min_samples_leaf = DefaultMinLeaf}}
    \cup UNION {{[d |-> d, c |-> c] : c \in Configs(Len(d.X[1]))} : d \in LineData}

\* the rows with positive weight, in row order: samples[sample_weight > 0]
RECURSIVE Positive(_, _)
Positive(w, i) ==
    IF i > Len(w) THEN <<>>
    ELSE (IF w[i] > 0 THEN <<i - 1>> ELSE <<>>) \o Positive(w, i + 1)

\* a sequence as a 0-based array
Array(seq) == [i \in Range0(Len(seq)) |-> seq[i + 1]]

RECURSIVE SeqSum(_)
SeqSum(seq) == IF seq = <<>> THEN 0 ELSE Head(seq) + SeqSum(Tail(seq))

\* value= of the root entry pushed before the loop
RootValue == FracZero

\* The state of _build_tree when it reaches its while loop.
Init ==
    /\ \E b \in Builds :
          /\ X = b.d.X
          /\ y = b.d.y
          /\ sample_weight = b.d.w
          /\ samples = Array(Positive(b.d.w, 1))
          /\ features = [j \in 1..Len(b.d.X[1]) |-> j - 1]
          /\ stack = push(NewStack,
                          [start |-> 0, end |-> Len(Positive(b.d.w, 1)), left |-> FALSE,
                           depth |-> 0, n_samples |-> SeqSum(b.d.w), parent |-> 0,
                           value |-> RootValue]).stack
          /\ max_features = b.c.max_features
          /\ max_depth = b.c.max_depth
          /\ min_samples_split = b.c.min_samples_split
          /\ min_samples_leaf = b.c.min_samples_leaf
    /\ criterion \in Criteria
    /\ tree = NewTree
    /\ node_t = 0
    /\ hist = <<>>
    /\ pc = "build"
    /\ query = <<>>
    /\ route = <<>>

\* ------------------------------------------------------------ _build_tree
\* (mutant) the left flag is ignored
Wire_RightOnly(t, e) ==
    IF node_t > 0 THEN [t EXCEPT !.children_right[e.parent] = node_t] ELSE t

\* "Adjust children node id of parent."
Wire(t, e) ==
    IF node_t > 0
    THEN IF e.left THEN [t EXCEPT !.children_left[e.parent] = node_t]
         ELSE [t EXCEPT !.children_right[e.parent] = node_t]
    ELSE t

\* What the history keeps of the pass that appended a node: the range and
\* depth of the popped entry, the rows then in the range, the features
\* handed to _best_split (none when it was not called) and the split
\* position (-1 for a terminal node).
Pass(e, pos, cand) ==
    [start |-> e.start, end |-> e.end, depth |-> e.depth,
     rows |-> {samples[q] : q \in e.start..(e.end - 1)}, pos |-> pos, cand |-> cand]

\* (mutant) the depth test lets a node at max_depth through
IsTerminal_PastDepth(e) == e.depth > max_depth \/ e.end - e.start < min_samples_split

\* "Terminal node if max_depth or min_samples_split conditions are met."
IsTerminal(e) == e.depth = max_depth \/ e.end - e.start < min_samples_split

\* random_state.shuffle(features), when max_features != n_features
Shuffles(fs) ==
    IF max_features # n_features
    THEN {g \in [1..Len(fs) -> {fs[i] : i \in 1..Len(fs)}] :
             {g[i] : i \in 1..Len(g)} = {fs[i] : i \in 1..Len(fs)}}
    ELSE {fs}

\* (mutant) the left child is filed under the parent of the popped entry
LeftChild_ParentStale(e, b) ==
    [start |-> e.start, end |-> b.best_pos_t, left |-> TRUE, depth |-> e.depth + 1,
     n_samples |-> b.N_L, parent |-> e.parent, value |-> b.value_L]

\* (mutant) the right child starts where the popped entry starts
RightChild_FromStart(e, b) ==
    [start |-> e.start, end |-> e.end, left |-> FALSE, depth |-> e.depth + 1,
     n_samples |-> b.N_R, parent |-> node_t, value |-> b.value_R]

\* "Add left and right children to the stack": the two entries pushed for
\* the popped entry e and the outcome b of _best_split.
LeftChild(e, b) ==
    [start |-> e.start, end |-> b.best_pos_t, left |-> TRUE, depth |-> e.depth + 1,
     n_samples |-> b.N_L, parent |-> node_t, value |-> b.value_L]

RightChild(e, b) ==
    [start |-> b.best_pos_t, end |-> e.end, left |-> FALSE, depth |-> e.depth + 1,
     n_samples |-> b.N_R, parent |-> node_t, value |-> b.value_R]

\* One pass of the while loop that ends in add_terminal_node because of the
\* depth / size limits.
TerminalNode ==
    /\ pc = "build"
    /\ StackLen(stack) > 0
    /\ LET p == pop(stack)
           e == p.entry
           t == Wire(tree, e)
       IN  /\ IsTerminal(e)
           /\ stack' = p.stack
           /\ IF HasRoom(t)
              THEN /\ tree' = add_terminal_node(t, e.value)
                   /\ node_t' = node_t + 1
                   /\ hist' = Append(hist, Pass(e, -1, <<>>))
                   /\ pc' = "build"
              ELSE /\ tree' = t
                   /\ pc' = "IndexError"
                   /\ UNCHANGED <<node_t, hist>>
    /\ UNCHANGED <<inputs, samples, features, query, route>>

\* One pass of the while loop that runs _best_split.  Without a split
\* (best_j == -1) the node is a terminal node; with one, the node is added
\* and its two children are pushed.
SearchNode ==
    /\ pc = "build"
    /\ StackLen(stack) > 0
    /\ LET p == pop(stack)
           e == p.entry
           t == Wire(tree, e)
       IN  /\ ~IsTerminal(e)
           /\ \E fs \in Shuffles(features) :
                \E o \in _best_split(samples, SubSeq(fs, 1, max_features), e.start, e.end) :
                   /\ features' = fs
                   /\ samples' = o.smp
                   /\ IF ~HasRoom(t)
                      THEN /\ tree' = t
                           /\ stack' = p.stack
                           /\ pc' = "IndexError"
                           /\ UNCHANGED <<node_t, hist>>
                      ELSE IF o.b.best_j = -1
                      THEN /\ tree' = add_terminal_node(t, e.value)
                           /\ stack' = p.stack
                           /\ node_t' = node_t + 1
                           /\ hist' = Append(hist, Pass(e, -1, SubSeq(fs, 1, max_features)))
                           /\ pc' = "build"
                      ELSE LET l == push(p.stack, LeftChild(e, o.b))
                               r == push(l.stack, RightChild(e, o.b))
                           IN  /\ tree' = add_node(t, o.b.best_thresh, o.b.best_j, e.value)
                               /\ hist' = Append(hist, Pass(e, o.b.best_pos_t,
                                                             SubSeq(fs, 1, max_features)))
                               /\ IF l.raised # "none"
                                  THEN /\ stack' = l.stack
                                       /\ pc' = l.raised
                                       /\ UNCHANGED node_t
                                  ELSE IF r.raised # "none"
                                  THEN /\ stack' = r.stack
                                       /\ pc' = r.raised
                                       /\ UNCHANGED node_t
                                  ELSE /\ stack' = r.stack
                                       /\ pc' = "build"
                                       /\ node_t' = node_t + 1
    /\ UNCHANGED <<inputs, query, route>>

\* enc.inverse_transform(np.array(tree.value, dtype=np.int32)), classification only
Decoded(t) ==
    IF criterion >= GINI_CRITERION
    THEN [t EXCEPT !.value = [i \in DOMAIN @ |-> Frac(LabelOf(@[i][1]), 1)]]
    ELSE t

\* The loop is over: decode the values and finalize the store.
Finish ==
    /\ pc = "build"
    /\ StackLen(stack) = 0
    /\ tree' = finalize(Decoded(tree))
    /\ pc' = "done"
    /\ UNCHANGED <<inputs, samples, features, stack, node_t, hist, query, route>>

\* ------------------------------------------------------------ _Stack alone
\* A _Stack driven by a caller of its own: pushes and pops in any order,
\* each exception caught by the caller, who then goes on.  pc is the
\* outcome of the last call: "stack" (it returned) or the exception raised.
MaxEntry == 2
StackEntries == {[NoEntry EXCEPT !.start = s] : s \in 1..MaxEntry}

StackInit ==
    /\ stack = NewStack
    /\ pc = "stack"
    /\ X = <<>> /\ y = <<>> /\ sample_weight = <<>>
    /\ criterion = MSE_CRITERION
    /\ max_features = 0 /\ max_depth = NoLimit
    /\ min_samples_split = DefaultMinSplit /\ min_samples_leaf = DefaultMinLeaf
    /\ samples = <<>> /\ features = <<>>
    /\ tree = NewTree
    /\ node_t = 0
    /\ hist = <<>>
    /\ query = <<>>
    /\ route = <<>>

\* stack.push(...)
Push ==
    /\ pc \in {"stack", "ValueError", "IndexError"}
    /\ \E entry \in StackEntries :
          LET r == push(stack, entry)
          IN  /\ stack' = r.stack
              /\ pc' = IF r.raised = "none" THEN "stack" ELSE r.raised
    /\ UNCHANGED <<inputs, samples, features, tree, node_t, hist, query, route>>

\* stack.pop(), called as _build_tree calls it, when len(stack) > 0; the
\* read of cell ptr + 1 raises IndexError when that cell does not exist,
\* after ptr was decremented.
Pop ==
    /\ pc \in {"stack", "ValueError", "IndexError"}
    /\ StackLen(stack) > 0
    /\ IF stack.ptr \in DOMAIN stack.e
       THEN stack' = pop(stack).stack /\ pc' = "stack"
       ELSE stack' = [stack EXCEPT !.ptr = @ - 1] /\ pc' = "IndexError"
    /\ UNCHANGED <<inputs, samples, features, tree, node_t, hist, query, route>>

StackNext == Push \/ Pop

StackSpec == StackInit /\ [][StackNext]_vars

\* ------------------------------------------------------------ _apply
\* (mutant) "<=" goes right
Step_Swapped(t, row, node) ==
    IF row[t.feature[node] + 1] * t.threshold[node][2] <= t.threshold[node][1]
    THEN t.children_right[node]
    ELSE t.children_left[node]

\* One turn of the while loop of _apply: "<=" goes left.
Step(t, row, node) ==
    IF row[t.feature[node] + 1] * t.threshold[node][2] <= t.threshold[node][1]
    THEN t.children_left[node]
    ELSE t.children_right[node]

\* The nodes the walk of _apply visits for one row, from `node` on.  The
\* code's while loop has no bound; a walk of more steps than the store has
\* cells is one that never ends, cut here with a final -1.
RECURSIVE Visit(_, _, _, _)
Visit(t, row, node, steps) ==
    IF steps > Cardinality(DOMAIN t.children_left) THEN <<-1>>
    ELSE IF t.children_left[node] = TREE_LEAF THEN <<node>>
    ELSE <<node>> \o Visit(t, row, Step(t, row, node), steps + 1)

\* the node the walk ends on (-1 when it does not end)
Walk(t, row, node, steps) ==
    LET v == Visit(t, row, node, steps) IN v[Len(v)]

\* out[i] of _apply for the row
_apply(t, row) == Walk(t, row, 0, 0)

\* The rows predict is asked about: every row over the range of the feature
\* values of the training set (the thresholds lie between two of them).
MaxFeature ==
    CHOOSE m \in {X[i][j] : i \in 1..Len(X), j \in 1..Len(X[1])} :
        \A i \in 1..Len(X), j \in 1..Len(X[1]) : X[i][j] <= m
QueryRows == [1..n_features -> 0..MaxFeature]

\* predict on a fitted estimator, for one row: _apply walks the tree.
Predict ==
    /\ pc = "done"
    /\ \E row \in QueryRows :
          /\ query' = row
          /\ route' = Visit(tree, row, 0, 0)
    /\ UNCHANGED <<inputs, samples, features, tree, stack, node_t, hist, pc>>

Next == TerminalNode \/ SearchNode \/ Finish \/ Predict

Spec == Init /\ [][Next]_vars

\* _build_tree is straight-line code around one loop, with no blocking call:
\* while a pass of the loop or the return is possible, it is taken.  The
\* builds followed to their end are those of the one-feature data sets,
\* under every configuration.
Build == TerminalNode \/ SearchNode \/ Finish
LiveInit == Init /\ \E d \in LineData : X = d.X /\ y = d.y
LiveSpec == LiveInit /\ [][Next]_vars /\ WF_vars(Build)

\* ------------------------------------------------------------ vocabulary
Done == pc = "done"
\* ids of the nodes appended so far
Nodes == Range0(tree.ptr)
IsLeafNode(n) == tree.children_left[n] = TREE_LEAF /\ tree.children_right[n] = TREE_LEAF
\* the pass that appended node n
PassOf(n) == hist[n + 1]
\* total weight and weighted target sum of a set of rows
RECURSIVE WeightOf(_)
WeightOf(rows) ==
    IF rows = {} THEN 0
    ELSE LET i == CHOOSE r \in rows : TRUE IN Weight(i) + WeightOf(rows \ {i})
RECURSIVE WeightedSum(_)
WeightedSum(rows) ==
    IF rows = {} THEN 0
    ELSE LET i == CHOOSE r \in rows : TRUE
         IN  Weight(i) * y[i + 1] + WeightedSum(rows \ {i})
\* summed weight of the rows of a set that carry label l
LabelWeight(rows, l) == WeightOf({i \in rows : y[i + 1] = l})
\* the label with the largest summed weight, the lowest one among equals
Majority(rows) ==
    CHOOSE l \in Labels :
        /\ \A m \in Labels : LabelWeight(rows, m) <= LabelWeight(rows, l)
        /\ \A m \in Labels : m < l => LabelWeight(rows, m) < LabelWeight(rows, l)
\* the rows with positive weight
Kept == {i \in Range0(n_samples) : Weight(i) > 0}

\* ------------------------------------------------------------ claims

\* C1: after a completed build every node is a leaf (both children LEAF,
\* feature UNDEFINED) or an internal node with a feature and two children
\* that are ids of stored nodes; none has exactly one child.
C1_ProperBinaryTree ==
    Done =>
        \A n \in Nodes :
            \/ /\ tree.children_left[n] = TREE_LEAF
               /\ tree.children_right[n] = TREE_LEAF
               /\ tree.feature[n] = UNDEFINED
            \/ /\ tree.feature[n] # UNDEFINED
               /\ tree.children_left[n] \in Nodes
               /\ tree.children_right[n] \in Nodes
               /\ tree.children_left[n] # tree.children_right[n]

\* a finished tree of two levels of splits
C1_Witness ==
    /\ Done
    /\ tree.ptr >= 5
    /\ \E n \in Nodes : ~IsLeafNode(n) /\ ~IsLeafNode(tree.children_left[n])

C3_MinSamplesLeaf ==
    \A n \in Range0(Len(hist)) :
        PassOf(n).pos # -1 =>
            /\ PassOf(n).pos - PassOf(n).start >= min_samples_leaf
            /\ PassOf(n).end - PassOf(n).pos >= min_samples_leaf

\* a split taken under min_samples_leaf = 2 in a range where the 1 : 3 split
\* would have been pure
C3_Witness ==
    /\ min_samples_leaf = 2
    /\ criterion = MSE_CRITERION
    /\ y = <<0, 10, 10, 10>>
    /\ Len(hist) >= 1
    /\ PassOf(0).pos = 2

\* C4: in a finished regression tree the value of every leaf, the root
\* included, is the weighted mean of the targets of the rows routed to it.
C4_LeafIsWeightedMean ==
    (Done /\ criterion = MSE_CRITERION) =>
        \A n \in Nodes :
            (IsLeafNode(n) /\ PassOf(n).rows # {}) =>
                FracEq(tree.value[n],
                       Frac(WeightedSum(PassOf(n).rows), WeightOf(PassOf(n).rows)))

\* C5: in a finished classification tree the value of every leaf, the root
\* included, is the label of largest summed weight among the rows routed to
\* it, the lowest such label when several tie.
C5_LeafIsWeightedMajority ==
    (Done /\ criterion >= GINI_CRITERION) =>
        \A n \in Nodes :
            (IsLeafNode(n) /\ PassOf(n).rows # {}) =>
                tree.value[n] = Frac(Majority(PassOf(n).rows), 1)

\* the estimate of the whole training set: weighted mean or weighted majority
WholeSetEstimate ==
    IF criterion = MSE_CRITERION
    THEN Frac(WeightedSum(Kept), WeightOf(Kept))
    ELSE Frac(Majority(Kept), 1)

\* C6: the root entry carries the whole-set estimate, so a build over rows
\* that all share the same feature values ends as a single leaf whose value
\* is the global weighted mean (regression) or majority (classification).
C6_DegenerateRootEstimate ==
    (Done /\ Kept # {} /\ \A i, k \in 1..n_samples : X[i] = X[k]) =>
        /\ tree.ptr = 1
        /\ IsLeafNode(0)
        /\ FracEq(tree.value[0], WholeSetEstimate)

\* the build of X = [[0],[1],[2],[3]], y = [0,0,10,10], unit weights, MSE,
\* default limits
Scenario1 ==
    /\ X = <<<<0>>, <<1>>, <<2>>, <<3>>>>
    /\ y = <<0, 0, 10, 10>>
    /\ sample_weight = <<1, 1, 1, 1>>
    /\ criterion = MSE_CRITERION
    /\ max_depth = NoLimit
    /\ min_samples_split = DefaultMinSplit
    /\ min_samples_leaf = DefaultMinLeaf

\* C7 as stated: the finished tree of scenario 1 has one internal node
\* (feature 0, threshold 1.5) and two leaves, valued 0.0 and 10.0.
C7_SingleSplit ==
    (Done /\ Scenario1) =>
        /\ tree.ptr = 3
        /\ tree.feature[0] = 0
        /\ FracEq(tree.threshold[0], Frac(3, 2))
        /\ IsLeafNode(tree.children_left[0])
        /\ IsLeafNode(tree.children_right[0])
        /\ FracEq(tree.value[tree.children_left[0]], Frac(0, 1))
        /\ FracEq(tree.value[tree.children_right[0]], Frac(10, 1))

\* C7 amended: the root of scenario 1 splits on feature 0 at 1.5; its two
\* pure children are split once more, at 0.5 and 2.5, so the tree has three
\* internal nodes and four leaves; every leaf under the left child is valued
\* 0.0 and every leaf under the right child 10.0.
C7_RootSplitThenPureSplits ==
    (Done /\ Scenario1) =>
        LET l == tree.children_left[0]
            r == tree.children_right[0]
        IN  /\ tree.ptr = 7
            /\ tree.feature[0] = 0
            /\ FracEq(tree.threshold[0], Frac(3, 2))
            /\ l \in Nodes /\ r \in Nodes
            /\ tree.feature[l] = 0 /\ FracEq(tree.threshold[l], Frac(1, 2))
            /\ tree.feature[r] = 0 /\ FracEq(tree.threshold[r], Frac(5, 2))
            /\ \A c \in {tree.children_left[l], tree.children_right[l]} :
                  c \in Nodes /\ IsLeafNode(c) /\ FracEq(tree.value[c], Frac(0, 1))
            /\ \A c \in {tree.children_left[r], tree.children_right[r]} :
                  c \in Nodes /\ IsLeafNode(c) /\ FracEq(tree.value[c], Frac(10, 1))

\* the finished tree of scenario 1
C7_Witness == Done /\ Scenario1 /\ tree.ptr = 7

\* C8: once the store is finalized each of the five arrays has exactly as
\* many cells as nodes were appended, and node 0 is the root.
C8_TrimmedToNodeCount ==
    Done =>
        /\ DOMAIN tree.threshold = Range0(Len(hist))
        /\ DOMAIN tree.feature = Range0(Len(hist))
        /\ DOMAIN tree.children_left = Range0(Len(hist))
        /\ DOMAIN tree.children_right = Range0(Len(hist))
        /\ DOMAIN tree.value = Range0(Len(hist))
        /\ PassOf(0).depth = 0
        /\ PassOf(0).rows = Kept

\* C9: the node store grows on demand: no add_node / add_terminal_node ever
\* fails for want of room, whatever the number of nodes the tree needs.
C9_StoreGrowsOnDemand == pc # "IndexError"

\* C10: a node at depth max_depth or with fewer than min_samples_split
\* samples is never split; no node is deeper than max_depth (when one is
\* set); with max_depth = 0 the finished tree is a single leaf.
C10_LimitsStopSplitting ==
    /\ \A n \in Range0(Len(hist)) :
          /\ PassOf(n).pos # -1 =>
                /\ PassOf(n).depth # max_depth
                /\ PassOf(n).end - PassOf(n).start >= min_samples_split
          /\ max_depth >= 0 => PassOf(n).depth <= max_depth
    /\ (Done /\ max_depth = 0) => (tree.ptr = 1 /\ IsLeafNode(0))

\* a finished tree cut at depth 1: a leaf at depth 1 holds rows with
\* different feature values, which an unlimited build would split
C10_Witness ==
    /\ Done
    /\ max_depth = 1
    /\ tree.ptr = 3
    /\ \E n \in Nodes :
          /\ IsLeafNode(n)
          /\ PassOf(n).depth = 1
          /\ \E i, k \in PassOf(n).rows : X[i + 1] # X[k + 1]

\* C11: for every finished tree and every query row, the walk of predict
\* starts at node 0, goes from an internal node to its left child when the
\* row's value at the node's feature is <= the node's threshold and to its
\* right child otherwise, visits strictly increasing node ids, and ends on
\* a leaf after fewer steps than the tree has nodes.
C11_RoutingReachesLeaf ==
    (Done /\ route # <<>>) =>
        /\ route[1] = 0
        /\ \A k \in 1..(Len(route) - 1) :
              LET n == route[k]
              IN  /\ n \in Nodes
                  /\ tree.children_left[n] # TREE_LEAF
                  /\ (query[tree.feature[n] + 1] * tree.threshold[n][2] <= tree.threshold[n][1])
                        => route[k + 1] = tree.children_left[n]
                  /\ (query[tree.feature[n] + 1] * tree.threshold[n][2] > tree.threshold[n][1])
                        => route[k + 1] = tree.children_right[n]
                  /\ route[k + 1] > n
        /\ route[Len(route)] \in Nodes
        /\ IsLeafNode(route[Len(route)])
        /\ Len(route) - 1 < tree.ptr

\* a walk of two turns, one to the left and one to the right
C11_Witness ==
    /\ Done
    /\ Len(route) = 3
    /\ \E k, m \in 1..2 :
          /\ route[k + 1] = tree.children_left[route[k]]
          /\ route[m + 1] = tree.children_right[route[m]]

\* the labels of the rows with positive weight
KeptLabels == {y[i + 1] : i \in Kept}

\* C12: rows of weight zero never enter the sample permutation, and the
\* finished tree is the one the same build makes of the input without
\* them; that build's encoder knows the labels of the positive-weight rows
\* only, so every value of a classification tree is one of those labels.
C12_ZeroWeightRowsLeaveNoTrace ==
    /\ \A p \in DOMAIN samples : Weight(samples[p]) > 0
    /\ (Done /\ criterion >= GINI_CRITERION /\ Kept # {}) =>
          \A n \in Nodes : tree.value[n][1] \in KeptLabels

\* the build of X = [[0],[0],[5],[5]], y = [0,0,1,1], unit weights, Gini,
\* default limits
Scenario2 ==
    /\ X = <<<<0>>, <<0>>, <<5>>, <<5>>>>
    /\ y = <<0, 0, 1, 1>>
    /\ sample_weight = <<1, 1, 1, 1>>
    /\ criterion = GINI_CRITERION
    /\ max_depth = NoLimit
    /\ min_samples_split = DefaultMinSplit
    /\ min_samples_leaf = DefaultMinLeaf

\* C13: in scenario 2 no split is ever taken between two equal values (no
\* node has threshold 0 or 5, every split position separates two different
\* values), and the finished tree is the root, split on feature 0 at 2.5,
\* with a left leaf of class 0 and a right leaf of class 1.
C13_SplitBetweenDistinctValues ==
    Scenario2 =>
        /\ \A n \in Range0(Len(hist)) :
              PassOf(n).pos # -1 =>
                  /\ PassOf(n).pos = 2
                  /\ FracEq(tree.threshold[n], Frac(5, 2))
        /\ Done =>
              /\ tree.ptr = 3
              /\ tree.feature[0] = 0
              /\ FracEq(tree.threshold[0], Frac(5, 2))
              /\ tree.children_left[0] \in Nodes
              /\ tree.children_right[0] \in Nodes
              /\ IsLeafNode(tree.children_left[0])
              /\ IsLeafNode(tree.children_right[0])
              /\ tree.value[tree.children_left[0]] = Frac(0, 1)
              /\ tree.value[tree.children_right[0]] = Frac(1, 1)

\* the finished tree of scenario 2
C13_Witness == Done /\ Scenario2 /\ tree.ptr = 3 /\ PassOf(0).pos = 2

\* the entries now on the stack
Pending == {stack.e[q] : q \in Range0(StackLen(stack))}

\* C14: the n_samples of every entry on the stack is the summed weight of
\* the rows in its range: the total weight for the root entry, the left and
\* right weighted counts of the winning position for the two entries pushed
\* after a split.
C14_EntryCarriesWeightOfRange ==
    pc = "build" =>
        \A e \in Pending :
            e.n_samples = WeightOf({samples[q] : q \in e.start..(e.end - 1)})

\* the rows of a set, one after the other
RECURSIVE Listed(_)
Listed(rows) ==
    IF rows = {} THEN <<>>
    ELSE LET i == CHOOSE r \in rows : TRUE IN <<i>> \o Listed(rows \ {i})

\* the rows of node n with feature j at most v
AtMost(n, j, v) == {i \in PassOf(n).rows : Feat(i, j) <= v}

\* The admissible (candidate index, position) pairs of the search for node
\* n: the position is the end of the rows with values up to some value of
\* the feature in the range, rows with larger values follow it, and both
\* sides hold min_samples_leaf samples or more.
Admissible(n) ==
    {c \in (1..Len(PassOf(n).cand)) \X ((PassOf(n).start + 1)..(PassOf(n).end - 1)) :
        /\ c[2] - PassOf(n).start >= min_samples_leaf
        /\ PassOf(n).end - c[2] >= min_samples_leaf
        /\ \E i \in PassOf(n).rows :
              Cardinality(AtMost(n, PassOf(n).cand[c[1]], Feat(i, PassOf(n).cand[c[1]])))
                  = c[2] - PassOf(n).start}

\* the impurity of a pair: that of the range with the c[2] - start rows of
\* lowest value on the left
PairImpurity(n, c) ==
    LET j == PassOf(n).cand[c[1]]
        lo == CHOOSE L \in {AtMost(n, j, Feat(i, j)) : i \in PassOf(n).rows} :
                  Cardinality(L) = c[2] - PassOf(n).start
        l == Listed(lo) \o Listed(PassOf(n).rows \ lo)
        s == [q \in PassOf(n).start..(PassOf(n).end - 1) |-> l[q - PassOf(n).start + 1]]
    IN  Impurity(s, PassOf(n).start, c[2], PassOf(n).end).imp

\* scan order: the order of the feature list, then ascending position
ScannedBefore(c, d) == c[1] < d[1] \/ (c[1] = d[1] /\ c[2] < d[2])

\* the node appended by the latest pass of the loop
Latest == Len(hist) - 1

\* C15: every search (looked at when its pass has just ended) ends without
\* a split exactly when no pair is admissible; otherwise the (feature,
\* position) it returns is an admissible pair, no admissible pair of any
\* candidate feature has a lower impurity, and none of equal impurity comes
\* earlier in scan order.
C15_LowestImpurityFirstFound ==
    \A n \in {m \in {Latest} : pc = "build" /\ m >= 0} :
        PassOf(n).cand # <<>> =>
            LET imp == [c \in Admissible(n) |-> PairImpurity(n, c)]
            IN  IF PassOf(n).pos = -1
                THEN DOMAIN imp = {}
                ELSE \E c \in DOMAIN imp :
                        /\ PassOf(n).cand[c[1]] = tree.feature[n]
                        /\ c[2] = PassOf(n).pos
                        /\ \A d \in DOMAIN imp :
                              /\ ~ImpLess(imp[d], imp[c])
                              /\ ~ImpLess(imp[c], imp[d]) => ~ScannedBefore(d, c)

\* a search over two features in which two admissible pairs tie for the
\* lowest impurity and the second feature offers the later of them
C15_Witness ==
    \E n \in Range0(Len(hist)) :
        /\ Len(PassOf(n).cand) = 2
        /\ PassOf(n).pos # -1
        /\ \E c, d \in Admissible(n) :
              /\ c[1] = 1 /\ d[1] = 2
              /\ c[2] = PassOf(n).pos
              /\ FracEq(PairImpurity(n, c), PairImpurity(n, d))

\* the positions of a range
Span(e) == e.start..(e.end - 1)

\* the indices of the stack cells in use
Held == Range0(StackLen(stack))

\* the nodes appended as terminal nodes so far
LeavesSoFar == {n \in Range0(Len(hist)) : PassOf(n).pos = -1}

\* C16: at every step of the build the ranges of the entries on the stack
\* are pairwise disjoint and disjoint from the ranges of the leaves already
\* appended, which are disjoint from one another; all together they cover
\* exactly the positions 0..n-1 of the positive-weight samples.
C16_RangesPartitionSamples ==
    pc \in {"build", "done"} =>
        /\ \A p, q \in Held : p # q => Span(stack.e[p]) \cap Span(stack.e[q]) = {}
        /\ \A p \in Held : \A n \in LeavesSoFar : Span(stack.e[p]) \cap Span(PassOf(n)) = {}
        /\ \A n, m \in LeavesSoFar : n # m => Span(PassOf(n)) \cap Span(PassOf(m)) = {}
        /\ UNION ({Span(stack.e[p]) : p \in Held} \cup {Span(PassOf(n)) : n \in LeavesSoFar})
              = Range0(Cardinality(Kept))

\* a step with a leaf already appended, two entries pending and a split
\* behind them
C16_Witness ==
    /\ pc = "build"
    /\ StackLen(stack) >= 2
    /\ \E n \in LeavesSoFar : PassOf(n).end > PassOf(n).start
    /\ Cardinality({n \in Range0(Len(hist)) : PassOf(n).pos # -1}) >= 2

\* the entry the next pass of the loop pops
Top == stack.e[stack.ptr]

\* the rows at a set of positions of a permutation
RowsAt(smp, ps) == {smp[p] : p \in ps}

\* What a pass of the loop over the range of Top does to the permutation.
SearchKeepsToRange ==
    (pc = "build" /\ StackLen(stack) > 0) =>
        /\ DOMAIN samples' = DOMAIN samples
        /\ \A p \in DOMAIN samples \ Span(Top) : samples'[p] = samples[p]
        /\ RowsAt(samples', Span(Top)) = RowsAt(samples, Span(Top))
        /\ RowsAt(samples', DOMAIN samples') = Kept
        /\ Cardinality(DOMAIN samples') = Cardinality(Kept)
        /\ (Len(hist') > Len(hist) /\ hist'[Len(hist')].pos # -1) =>
              LET pos == hist'[Len(hist')].pos
                  j == tree'.feature[node_t]
                  th == tree'.threshold[node_t]
              IN  /\ RowsAt(samples', Top.start..(pos - 1))
                        = {i \in RowsAt(samples, Span(Top)) : Feat(i, j) * th[2] <= th[1]}
                  /\ RowsAt(samples', pos..(Top.end - 1))
                        = {i \in RowsAt(samples, Span(Top)) : Feat(i, j) * th[2] > th[1]}

LeftParents(n) == {m \in Nodes : tree.children_left[m] = n}
RightParents(n) == {m \in Nodes : tree.children_right[m] = n}

\* Between two passes of the loop: node n is the n-th entry popped, the root
\* is node 0, and every other node sits in exactly one child slot, of a
\* node of lower id: the left slot if its range is the parent's [start,pos),
\* the right slot if it is [pos,end).
IdsInPopOrder ==
    pc \in {"build", "done"} =>
        /\ tree.ptr = Len(hist)
        /\ node_t = Len(hist)
        /\ Len(hist) > 0 => (PassOf(0).depth = 0 /\ LeftParents(0) \cup RightParents(0) = {})
        /\ \A n \in Nodes \ {0} :
              /\ Cardinality(LeftParents(n)) + Cardinality(RightParents(n)) = 1
              /\ \A m \in LeftParents(n) :
                    /\ m < n
                    /\ PassOf(n).start = PassOf(m).start
                    /\ PassOf(n).end = PassOf(m).pos
              /\ \A m \in RightParents(n) :
                    /\ m < n
                    /\ PassOf(n).start = PassOf(m).pos
                    /\ PassOf(n).end = PassOf(m).end

\* A step never takes an id back or gives it to another entry, and never
\* writes a child slot that already holds an id.
IdsAndSlotsKept ==
    /\ Len(hist') >= Len(hist)
    /\ SubSeq(hist', 1, Len(hist)) = hist
    /\ node_t' \in {node_t, node_t + 1}
    /\ \A m \in DOMAIN tree'.children_left :
          /\ tree.children_left[m] # TREE_LEAF => tree'.children_left[m] = tree.children_left[m]
          /\ tree.children_right[m] # TREE_LEAF => tree'.children_right[m] = tree.children_right[m]

\* C18: node ids are 0, 1, 2, ... in pop order and are never reused; the
\* root is node 0; every other node's id is written once, into its parent's
\* left slot if its entry covers [start,pos) and into the right slot if it
\* covers [pos,end); a child's id is greater than its parent's; a slot once
\* written is never overwritten.
C18_IdsInPopOrderWiredOnce == []IdsInPopOrder /\ [][IdsAndSlotsKept]_vars

\* a finished tree whose root has its right child next to it and its left
\* child after the whole right subtree
C18_Witness ==
    /\ Done
    /\ tree.children_right[0] = 1
    /\ tree.children_left[0] > 2
    /\ tree.children_left[0] \in Nodes

\* Every split made so far cut its range into two non-empty ranges, and for
\* n >= 1 positive-weight rows no more than 2n - 1 entries were popped and
\* no more than 2n - 1 nodes appended.
SplitsShrinkPopsBounded ==
    /\ \A n \in Range0(Len(hist)) :
          PassOf(n).pos # -1 =>
              /\ PassOf(n).start < PassOf(n).pos
              /\ PassOf(n).pos < PassOf(n).end
    /\ Cardinality(Kept) >= 1 =>
          /\ Len(hist) <= 2 * Cardinality(Kept) - 1
          /\ tree.ptr <= 2 * Cardinality(Kept) - 1

\* C19: the build terminates: every split leaves two non-empty, strictly
\* smaller ranges, at most 2n - 1 entries are popped and at most 2n - 1
\* nodes appended, and the loop ends with the stack empty and the tree
\* returned unless the node store runs out first.
C19_BuildTerminates ==
    []SplitsShrinkPopsBounded /\ <>(Done \/ pc = "IndexError")

\* a finished build that popped 2n - 1 entries, for n = 4 rows
C19_Witness ==
    /\ Done
    /\ Cardinality(Kept) = 4
    /\ Len(hist) = 7
    /\ StackLen(stack) = 0

\* From a stack that holds StackCapacity entries a step is a pop or a push
\* that is rejected: ValueError ('Stack overflow!') and the stack as it was.
FullStackStep ==
    StackLen(stack) = StackCapacity =>
        \/ StackLen(stack') < StackLen(stack)
        \/ stack' = stack /\ pc' = "ValueError"

\* C20: a push onto a stack that holds capacity entries is rejected with
\* 'Stack overflow!' and leaves the stack unchanged; no push writes at or
\* beyond index capacity (no IndexError), and len(stack) never exceeds
\* capacity.
C20_FullStackRejectsPush ==
    [](StackLen(stack) <= StackCapacity /\ pc # "IndexError") /\ [][FullStackStep]_vars

====
